---- MODULE Spec2Model ----
(***************************************************************************)
(* Model of demo.ipynb: train_estimator (the training loop that estimates  *)
(* time-varying mutual information), its inner train_step, and the         *)
(* experiment driver that fills mi_numpys.                                 *)
(*                                                                         *)
(* The program is sequential.  Each statement group of train_estimator is  *)
(* one action, selected by the program counter pc, so that a failure of    *)
(* any statement and the order of the statements are visible.              *)
(*                                                                         *)
(* Tensors and parameters are symbolic: a parameter set is an object of    *)
(* the heap with a version (the number of optimizer steps applied to it)   *)
(* and its accumulated gradient (the set of losses, named <<call, iter>>,  *)
(* whose backward pass contributed to it).  An estimate is the term naming *)
(* everything it was computed from.                                        *)
(***************************************************************************)
EXTENDS Integers, Sequences, FiniteSets, TLC

VARIABLES
    caller,        \* "driver": the notebook's driver cell; "direct": one call
    c,             \* number of the current call of train_estimator (1-based)
    mi_numpys,     \* the driver's dict of dicts of traces
    critic_params, data_params, mi_params, opt_params, kwargs,  \* arguments
    critic, baseline, opt_crit, opt_base,      \* closure variables of the call
    mis, rhos, estimates, i,                   \* the schedule and the loop
    rho, critic_, xy, mi, loss,                \* locals of train_step
    heap,          \* the parameter sets ever constructed, by object id
    pc,            \* position in the program
    error,         \* the exception that ended the program, "" if none
    ret,           \* value returned by the last completed call
    log            \* history: the events of the current call, in order

args    == <<critic_params, data_params, mi_params, opt_params, kwargs>>
closure == <<critic, baseline, opt_crit, opt_base>>
loop    == <<mis, rhos, estimates, i>>
locals  == <<rho, critic_, xy, mi, loss>>
driver  == <<caller, c, mi_numpys>>
vars    == <<driver, args, closure, loop, locals, heap, pc, error, ret, log>>

----------------------------------------------------------------------------
(* Bounds of the model *)

\* largest opt_params['iterations'] explored
MaxIter == 3

----------------------------------------------------------------------------
(* Python values *)

\* dict.get(k, default)
Get(d, k, default) == IF k \in DOMAIN d THEN d[k] ELSE default

\* d[k] = v on a dict
DictSet(d, k, v) == [x \in (DOMAIN d) \cup {k} |-> IF x = k THEN v ELSE d[x]]

\* dict()
EmptyDict == <<>>

\* the object None, as a reference to a parameter set
None == 0

NoTensor == [val |-> <<>>, sign |-> 0, graph |-> {}]
NoBatch  == [rho |-> <<>>, dim |-> 0, batch_size |-> 0, cubic |-> "", draw |-> <<>>]
NoOpt    == [params |-> None, steps |-> 0, last |-> {}]
NoBase   == [kind |-> "unset", id |-> None]

\* the module-level dictionaries
CRITICS == [separable |-> "SeparableCritic", concat |-> "ConcatCritic"]

BASELINES == [constant |-> "None", unnormalized |-> "module", gaussian |-> "function"]

\* the estimator names estimate_mutual_information selects among
ESTIMATORS == {"infonce", "nwj", "js", "smile", "conditional"}

RECURSIVE GCD(_, _)
GCD(a, b) == IF b = 0 THEN a ELSE GCD(b, a % b)

\* mi_schedule(n): the target MI of each of the n iterations, a rising staircase
mi_schedule(n) == [k \in 1..n |-> 2 * (1 + (5 * (k - 1)) \div n)]

\* mi_to_rho(dim, mis): the closed form sqrt(1 - exp(-2 mi / dim)) is a strictly
\* increasing function of mi / dim, so a correlation is named by that ratio in
\* lowest terms
mi_to_rho(dim, m) ==
    [k \in 1..Len(m) |-> <<m[k] \div GCD(m[k], dim), dim \div GCD(m[k], dim)>>]

\* sample_correlated_gaussian(dim, rho, batch_size, cubic): a fresh batch (x, y)
sample_correlated_gaussian(dim, r, batch_size, cubic, draw) ==
    [rho |-> r, dim |-> dim, batch_size |-> batch_size, cubic |-> cubic, draw |-> draw]

\* whether the estimator's formula takes the baseline's output: InfoNCE reads the
\* score matrix alone
UsesBaseline(estimator) == estimator # "infonce"

\* estimate_mutual_information(estimator, x, y, critic_fn, baseline_fn, ...): the
\* scalar tensor, a term of what it was computed from; its graph holds the
\* parameter sets the scalar depends on
estimate_mutual_information(estimator, batch, critic_fn, baseline_fn, kw) ==
    [val   |-> [estimator |-> estimator, batch |-> batch, kwargs |-> kw,
                critic |-> critic_fn, critic_ver |-> heap[critic_fn].ver,
                baseline |-> baseline_fn.kind,
                baseline_ver |-> IF baseline_fn.kind = "module"
                                 THEN heap[baseline_fn.id].ver ELSE 0],
     sign  |-> 1,
     graph |-> {critic_fn} \cup
               (IF UsesBaseline(estimator) /\ baseline_fn.kind = "module" THEN {baseline_fn.id} ELSE {})]

\* -mi
Neg(t) == [t EXCEPT !.sign = -t.sign]

\* mi.detach().cpu().numpy(): the value without its graph
Detach(t) == [val |-> t.val, sign |-> t.sign]

\* np.array(estimates): a flat array of the list's values
NpArray(s) == [shape |-> <<Len(s)>>, data |-> s]

\* a new parameter set (a module moved to the device): ver counts the optimizer
\* steps applied to it, grad names the losses accumulated in its gradient
NewParams(owner, kind, class, r) ==
    [owner |-> owner, kind |-> kind, class |-> class, rho |-> r, ver |-> 0, grad |-> {}]

----------------------------------------------------------------------------
(* History *)

Ev(e, d) == [ev |-> e, i |-> i, d |-> d]

Logged(e, d) == log' = Append(log, Ev(e, d))

\* mutant of Raise: the exception is caught and the trace so far is returned
Raise_swallowed(e) == /\ pc' = "returned"
                      /\ error' = e

\* raise: the exception propagates to the top, nothing catches it
Raise(e) == /\ pc' = "failed"
            /\ error' = e

----------------------------------------------------------------------------
(* The inputs *)

\* mi_params: every key may be absent
MiParamsSet ==
    { [k \in ks |-> CASE k = "estimator" -> e [] k = "critic" -> cr [] k = "baseline" -> b] :
        ks \in SUBSET {"estimator", "critic", "baseline"},
        e  \in {"infonce", "conditional", "bogus"},
        cr \in {"separable", "concat", "conditional", "bogus"},
        b  \in {"constant", "unnormalized", "gaussian", "bogus"} }

DataParamsSet ==
    { [dim |-> 20, batch_size |-> 64, cubic |-> "None"],
      [dim |-> 4,  batch_size |-> 8,  cubic |-> "True"] }

CriticParams ==
    [dim |-> 20, layers |-> 2, embed_dim |-> 32, hidden_dim |-> 256, activation |-> "relu"]

OptParamsSet == { [iterations |-> n, learning_rate |-> "5e-4"] : n \in 0..MaxIter }

\* the driver's loops, flattened: for each critic type the four estimators, then
\* smile with the two clips.  first marks the pass of the outer loop's first line
DriverPlan ==
    LET perType(ct) ==
          << [critic_type |-> ct, estimator |-> "infonce", clip |-> "", first |-> TRUE],
             [critic_type |-> ct, estimator |-> "nwj",     clip |-> "", first |-> FALSE],
             [critic_type |-> ct, estimator |-> "js",      clip |-> "", first |-> FALSE],
             [critic_type |-> ct, estimator |-> "smile",   clip |-> "", first |-> FALSE],
             [critic_type |-> ct, estimator |-> "smile",   clip |-> "1.0", first |-> FALSE],
             [critic_type |-> ct, estimator |-> "smile",   clip |-> "5.0", first |-> FALSE] >>
    IN  perType("separable") \o perType("concat")

\* mutant of KeyOf: the clip is left out of the key
KeyOf_noclip(e) == <<e.estimator>>

\* f'{estimator}' and f'{estimator}_{clip}', as the pieces concatenated
KeyOf(e) == IF e.clip = "" THEN <<e.estimator>> ELSE <<e.estimator, "_", e.clip>>


Init ==
    /\ caller \in {"driver", "direct"}
    /\ critic_params = CriticParams
    /\ data_params \in DataParamsSet
    /\ opt_params \in OptParamsSet
    /\ IF caller = "driver"
       THEN /\ c = 0 /\ pc = "idle"
            /\ mi_params = <<>> /\ kwargs = <<>>
       ELSE /\ c = 1 /\ pc = "construct"
            /\ mi_params \in MiParamsSet
            /\ kwargs \in {<<>>, [clip |-> "1.0"]}
    /\ mi_numpys = EmptyDict
    /\ heap = <<>>
    /\ error = ""
    /\ ret = NpArray(<<>>)
    /\ critic = None /\ baseline = NoBase /\ opt_crit = NoOpt /\ opt_base = NoOpt
    /\ mis = <<>> /\ rhos = <<>> /\ estimates = <<>> /\ i = 0
    /\ rho = <<>> /\ critic_ = None /\ xy = NoBatch /\ mi = NoTensor /\ loss = NoTensor
    /\ log = <<>>

----------------------------------------------------------------------------
(* train_estimator *)

N == opt_params.iterations

IsModule(b) == b.kind = "module"

\* lines 79-88: the critic, the baseline and their optimizers.  The critic is
\* built (and moved to the device) before the baseline's name is looked up.
Construct ==
    /\ pc = "construct"
    /\ LET cname == Get(mi_params, "critic", "separable")
           bname == Get(mi_params, "baseline", "constant")
           cid   == Len(heap) + 1
           heap1 == Append(heap, NewParams(c, "critic", cname, "None"))
       IN  \E ok \in BOOLEAN :
             IF cname \notin DOMAIN CRITICS
             THEN /\ Raise("KeyError")
                  /\ Logged("raise", "critic")
                  /\ UNCHANGED <<heap, closure>>
             ELSE IF ~ok
             THEN /\ Raise("framework")
                  /\ Logged("raise", "construct")
                  /\ UNCHANGED <<heap, closure>>
             ELSE IF bname \notin DOMAIN BASELINES
             THEN /\ Raise("KeyError")
                  /\ Logged("raise", "baseline")
                  /\ heap' = heap1
                  /\ critic' = cid
                  /\ UNCHANGED <<baseline, opt_crit, opt_base>>
             ELSE /\ critic' = cid
                  /\ opt_crit' = [params |-> cid, steps |-> 0, last |-> {}]
                  /\ IF BASELINES[bname] = "module"
                     THEN /\ heap' = Append(heap1, NewParams(c, "baseline", "mlp", "None"))
                          /\ baseline' = [kind |-> "module", id |-> cid + 1]
                          /\ opt_base' = [params |-> cid + 1, steps |-> 0, last |-> {}]
                     ELSE /\ heap' = heap1
                          /\ baseline' = [kind |-> BASELINES[bname], id |-> None]
                          /\ opt_base' = NoOpt
                  /\ pc' = "schedule"
                  /\ Logged("construct", cname)
                  /\ UNCHANGED error
    /\ UNCHANGED <<driver, args, loop, locals, ret>>

\* lines 118-121: the schedule of correlation, and the empty trace
Schedule ==
    /\ pc = "schedule"
    /\ mis' = mi_schedule(N)
    /\ rhos' = mi_to_rho(data_params.dim, mis')
    /\ estimates' = <<>>
    /\ i' = 0
    /\ pc' = "loop"
    /\ Logged("schedule", N)
    /\ UNCHANGED <<driver, args, closure, locals, heap, error, ret>>

\* lines 122-123: the next iteration of range(iterations); rhos[i] is read and
\* train_step is called with it
LoopNext ==
    /\ pc = "loop"
    /\ i < N
    /\ rho' = rhos[i + 1]
    /\ pc' = "zero_grad"
    /\ Logged("lookup", rhos[i + 1])
    /\ UNCHANGED <<driver, args, closure, loop, critic_, xy, mi, loss, heap, error, ret>>

\* mutant of ZeroGradOf: the gradients are left to accumulate
ZeroGradOf_kept(h, opt) == h

\* opt.zero_grad()
ZeroGradOf(h, opt) == [h EXCEPT ![opt.params].grad = {}]

\* lines 94-96: the accumulated gradients are reset
ZeroGrad ==
    /\ pc = "zero_grad"
    /\ heap' = IF IsModule(baseline)
               THEN ZeroGradOf(ZeroGradOf(heap, opt_crit), opt_base)
               ELSE ZeroGradOf(heap, opt_crit)
    /\ pc' = "select"
    /\ Logged("zero_grad", IsModule(baseline))
    /\ UNCHANGED <<driver, args, closure, loop, locals, error, ret>>

\* lines 98-101: the critic to score with
SelectCritic ==
    /\ pc = "select"
    /\ IF "critic" \notin DOMAIN mi_params
       THEN /\ Raise("KeyError")
            /\ Logged("raise", "mi_params['critic']")
            /\ UNCHANGED <<critic_, heap>>
       ELSE IF mi_params["critic"] = "conditional"
       THEN IF "conditional" \in DOMAIN CRITICS
            THEN /\ heap' = Append(heap, NewParams(c, "critic", "conditional", rho))
                 /\ critic_' = Len(heap) + 1
                 /\ pc' = "sample"
                 /\ Logged("select", Len(heap) + 1)
                 /\ UNCHANGED error
            ELSE /\ Raise("KeyError")
                 /\ Logged("raise", "CRITICS['conditional']")
                 /\ UNCHANGED <<critic_, heap>>
       ELSE /\ critic_' = critic
            /\ pc' = "sample"
            /\ Logged("select", critic)
            /\ UNCHANGED <<heap, error>>
    /\ UNCHANGED <<driver, args, closure, loop, rho, xy, mi, loss, ret>>

\* mutant of SampleRho: every batch is drawn with the first scheduled correlation
SampleRho_first == rhos[1]

\* the correlation train_step samples with
SampleRho == rho

\* lines 103-104: a fresh batch for the scheduled correlation
Sample ==
    /\ pc = "sample"
    /\ \E ok \in BOOLEAN :
         IF ok
         THEN /\ xy' = sample_correlated_gaussian(data_params.dim, SampleRho,
                           data_params.batch_size, data_params.cubic, <<c, i>>)
              /\ pc' = "estimate"
              /\ Logged("sample", xy')
              /\ UNCHANGED error
         ELSE /\ Raise("framework")
              /\ Logged("raise", "sample")
              /\ UNCHANGED xy
    /\ UNCHANGED <<driver, args, closure, loop, rho, critic_, mi, loss, heap, ret>>

\* lines 105-108: the estimator's scalar and the loss.  The estimator's name is
\* looked up when the call's arguments are evaluated, after the batch is drawn.
Estimate ==
    /\ pc = "estimate"
    /\ \E ok \in BOOLEAN :
         IF "estimator" \notin DOMAIN mi_params
         THEN /\ Raise("KeyError")
              /\ Logged("raise", "mi_params['estimator']")
              /\ UNCHANGED <<mi, loss>>
         ELSE IF mi_params["estimator"] \notin ESTIMATORS
         THEN /\ Raise("estimator")
              /\ Logged("raise", "estimator")
              /\ UNCHANGED <<mi, loss>>
         ELSE IF ~ok
         THEN /\ Raise("framework")
              /\ Logged("raise", "estimate")
              /\ UNCHANGED <<mi, loss>>
         ELSE /\ mi' = estimate_mutual_information(mi_params["estimator"], xy, critic_,
                           baseline, kwargs)
              /\ loss' = Neg(mi')
              /\ pc' = "backward"
              /\ log' = log \o <<Ev("estimate", mi'), Ev("negate", loss')>>
              /\ UNCHANGED error
    /\ UNCHANGED <<driver, args, closure, loop, rho, critic_, xy, heap, ret>>

\* loss.backward(): the loss is added to the gradient of every parameter set of
\* its graph
BackwardOf(h, t, tag) ==
    [id \in DOMAIN h |-> IF id \in t.graph
                         THEN [h[id] EXCEPT !.grad = @ \cup {tag}] ELSE h[id]]

\* line 110
Backward ==
    /\ pc = "backward"
    /\ \E ok \in BOOLEAN :
         IF ok
         THEN /\ heap' = BackwardOf(heap, loss, <<c, i>>)
              /\ pc' = "opt_step"
              /\ Logged("backward", loss.graph)
              /\ UNCHANGED error
         ELSE /\ Raise("framework")
              /\ Logged("raise", "backward")
              /\ UNCHANGED heap
    /\ UNCHANGED <<driver, args, closure, loop, locals, ret>>

\* mutant of StepHeap: the optimizer is stepped twice
StepHeap_twice(h, opt) == [h EXCEPT ![opt.params].ver = @ + 2]

\* opt.step(): one step on the optimizer's parameter set with its gradient
StepHeap(h, opt) == [h EXCEPT ![opt.params].ver = @ + 1]
StepOpt(h, opt)  == [opt EXCEPT !.steps = @ + 1, !.last = h[opt.params].grad]

\* whether train_step steps the baseline's optimizer
StepsBaseline == IsModule(baseline)

\* lines 111-113
OptStep ==
    /\ pc = "opt_step"
    /\ \E outcome \in {"ok", "crit_fails", "base_fails"} :
         IF outcome = "crit_fails"
         THEN /\ Raise("framework")
              /\ Logged("raise", "opt_crit.step")
              /\ UNCHANGED <<heap, opt_crit, opt_base>>
         ELSE IF ~StepsBaseline
         THEN /\ heap' = StepHeap(heap, opt_crit)
              /\ opt_crit' = StepOpt(heap, opt_crit)
              /\ pc' = "append"
              /\ Logged("step_crit", opt_crit'.last)
              /\ UNCHANGED <<opt_base, error>>
         ELSE IF outcome = "base_fails"
         THEN /\ heap' = StepHeap(heap, opt_crit)
              /\ opt_crit' = StepOpt(heap, opt_crit)
              /\ Raise("framework")
              /\ log' = log \o <<Ev("step_crit", opt_crit'.last), Ev("raise", "opt_base.step")>>
              /\ UNCHANGED opt_base
         ELSE /\ heap' = StepHeap(StepHeap(heap, opt_crit), opt_base)
              /\ opt_crit' = StepOpt(heap, opt_crit)
              /\ opt_base' = StepOpt(heap, opt_base)
              /\ pc' = "append"
              /\ log' = log \o <<Ev("step_crit", opt_crit'.last),
                                 Ev("step_base", opt_base'.last)>>
              /\ UNCHANGED error
    /\ UNCHANGED <<driver, args, critic, baseline, loop, locals, ret>>

\* mutant of AppendEstimate: the loss is recorded in place of the estimate
AppendEstimate_loss ==
    /\ pc = "append"
    /\ estimates' = Append(estimates, Detach(loss))
    /\ i' = i + 1
    /\ pc' = "loop"
    /\ Logged("append", Detach(loss))
    /\ UNCHANGED <<driver, args, closure, mis, rhos, locals, heap, error, ret>>

\* lines 115, 124-125: train_step returns mi; it is detached and appended
AppendEstimate ==
    /\ pc = "append"
    /\ estimates' = Append(estimates, Detach(mi))
    /\ i' = i + 1
    /\ pc' = "loop"
    /\ Logged("append", Detach(mi))
    /\ UNCHANGED <<driver, args, closure, mis, rhos, locals, heap, error, ret>>

\* mutant of Return: the loop stops one iteration early
Return_early ==
    /\ pc = "loop"
    /\ ~(i < N - 1)
    /\ ret' = NpArray(estimates)
    /\ pc' = "returned"
    /\ Logged("return", Len(estimates))
    /\ UNCHANGED <<driver, args, closure, loop, locals, heap, error>>

\* lines 122, 127: range(iterations) is exhausted, the trace is returned
Return ==
    /\ pc = "loop"
    /\ ~(i < N)
    /\ ret' = NpArray(estimates)
    /\ pc' = "returned"
    /\ Logged("return", Len(estimates))
    /\ UNCHANGED <<driver, args, closure, loop, locals, heap, error>>

----------------------------------------------------------------------------
(* The experiment driver *)

\* lines 181-186 and 189-192: the next configuration is trained
DriverCall ==
    /\ caller = "driver"
    /\ pc = "idle"
    /\ c < Len(DriverPlan)
    /\ LET e == DriverPlan[c + 1]
       IN  /\ mi_numpys' = IF e.first THEN DictSet(mi_numpys, e.critic_type, EmptyDict)
                           ELSE mi_numpys
           /\ mi_params' = [estimator |-> e.estimator, critic |-> e.critic_type,
                            baseline |-> "unnormalized"]
           /\ kwargs' = IF e.clip = "" THEN <<>> ELSE [clip |-> e.clip]
    /\ c' = c + 1
    /\ critic' = None /\ baseline' = NoBase /\ opt_crit' = NoOpt /\ opt_base' = NoOpt
    /\ mis' = <<>> /\ rhos' = <<>> /\ estimates' = <<>> /\ i' = 0
    /\ rho' = <<>> /\ critic_' = None /\ xy' = NoBatch /\ mi' = NoTensor /\ loss' = NoTensor
    /\ log' = <<>>
    /\ pc' = "construct"
    /\ UNCHANGED <<caller, critic_params, data_params, opt_params, heap, error, ret>>

\* lines 187 and 193: the returned trace is stored under its key
DriverStore ==
    /\ caller = "driver"
    /\ pc = "returned"
    /\ LET e == DriverPlan[c]
       IN  mi_numpys' = DictSet(mi_numpys, e.critic_type,
                                DictSet(mi_numpys[e.critic_type], KeyOf(e), ret))
    /\ pc' = "idle"
    /\ UNCHANGED <<caller, c, args, closure, loop, locals, heap, error, ret, log>>

Next ==
    \/ Construct
    \/ Schedule
    \/ LoopNext
    \/ ZeroGrad
    \/ SelectCritic
    \/ Sample
    \/ Estimate
    \/ Backward
    \/ OptStep
    \/ AppendEstimate
    \/ Return
    \/ DriverCall
    \/ DriverStore

Spec == Init /\ [][Next]_vars

\* the program is one thread that runs until it returns or raises
FairSpec == Spec /\ WF_vars(Next)

----------------------------------------------------------------------------
(* Reading the history *)

\* the positions of the log that hold event e
EvIdx(e) == {k \in 1..Len(log) : log[k].ev = e}

\* the positions of the log that hold event e of iteration it
EvAt(e, it) == {k \in EvIdx(e) : log[k].i = it}

Count(e) == Cardinality(EvIdx(e))

\* the call has constructed its critic, baseline and optimizers and has not raised
InRun == pc \in {"schedule", "loop", "zero_grad", "select", "sample", "estimate",
                 "backward", "opt_step", "append", "returned"}

\* inside train_step
InStep == pc \in {"zero_grad", "select", "sample", "estimate", "backward",
                  "opt_step", "append"}

\* every name of mi_params is given and is one the code knows (the baseline may
\* be left to its default)
ValidConfig ==
    /\ "critic" \in DOMAIN mi_params
    /\ mi_params["critic"] \in DOMAIN CRITICS
    /\ Get(mi_params, "baseline", "constant") \in DOMAIN BASELINES
    /\ "estimator" \in DOMAIN mi_params
    /\ mi_params["estimator"] \in ESTIMATORS

----------------------------------------------------------------------------
(* C1 *)

\* the trace, at every point of a call: at the start of iteration i it holds i
\* entries; its k-th entry is the detached estimate computed in iteration k-1
\* (so no entry is ever changed or removed); what is returned is the trace of
\* exactly N entries after exactly N calls of train_step
C1_Trace ==
    /\ pc = "zero_grad" => Len(estimates) = i /\ Count("lookup") = i + 1
    /\ \A k \in 1..Len(estimates) :
         /\ Cardinality(EvAt("estimate", k - 1)) = 1
         /\ \A j \in EvAt("estimate", k - 1) : estimates[k] = Detach(log[j].d)
    /\ pc = "returned" /\ error = "" =>
         /\ ret = NpArray(estimates)
         /\ ret.shape = <<N>>
         /\ Len(ret.data) = N
         /\ Count("lookup") = N
         /\ Count("append") = N

\* C1: for every iteration count N >= 0 and every valid configuration,
\* train_estimator ends (it returns, unless the framework fails under it) after
\* exactly N calls of train_step and returns a trace of exactly N estimates, the
\* i-th computed in the i-th iteration; at the start of iteration i the trace
\* holds exactly i entries and earlier entries are never changed or removed.
C1_Terminates ==
    /\ []C1_Trace
    /\ (pc = "construct" /\ ValidConfig) ~> (pc = "returned" \/ error = "framework")

\* a call with three iterations has returned its trace
C1_Witness ==
    /\ pc = "returned"
    /\ N = MaxIter
    /\ Len(ret.data) = MaxIter
    /\ Count("lookup") = MaxIter

----------------------------------------------------------------------------
(* C4 *)

\* C4: if any step of iteration i fails (sampling, estimator evaluation, gradient
\* computation or optimizer step), the whole run is aborted: the failure propagates
\* (the program ends in "failed"), the raise is the last event, no iteration after
\* i was started and iteration i was started once, and nothing is returned or
\* stored for the call.
C4_FailureAborts ==
    /\ error # "" <=> pc = "failed"
    /\ Count("raise") > 0 <=> pc = "failed"
    /\ pc = "failed" =>
         /\ Count("raise") = 1
         /\ log[Len(log)].ev = "raise"
         /\ Count("return") = 0
         /\ Count("append") = i
         /\ Count("lookup") <= i + 1
         /\ \A k \in 0..i : Cardinality(EvAt("lookup", k)) <= 1
         /\ Len(estimates) = i
         /\ caller = "driver" =>
              KeyOf(DriverPlan[c]) \notin DOMAIN mi_numpys[DriverPlan[c].critic_type]
    /\ Count("return") > 0 => Count("raise") = 0 /\ Len(estimates) = N

\* the backward pass of the second iteration failed
C4_Witness ==
    /\ pc = "failed"
    /\ error = "framework"
    /\ i = 1
    /\ log[Len(log)].d = "backward"
    /\ Len(estimates) = 1

----------------------------------------------------------------------------
(* C5 *)

\* optimizer steps applied so far in the call
StepsDone == IF pc = "append" THEN i + 1 ELSE i

\* C5: in every iteration that completes, the critic's parameter set is updated by
\* exactly one step of the critic optimizer and by nothing else, and the baseline's
\* by exactly one step of the baseline optimizer iff the baseline is the learned
\* network; otherwise there is no baseline optimizer and no baseline parameters.
C5_OneStepEach ==
    InRun =>
      /\ opt_crit.params = critic
      /\ opt_crit.steps = StepsDone
      /\ heap[critic].ver = StepsDone
      /\ IsModule(baseline) <=> Get(mi_params, "baseline", "constant") = "unnormalized"
      /\ IsModule(baseline) =>
           /\ opt_base.params = baseline.id
           /\ opt_base.steps = StepsDone
           /\ heap[baseline.id].ver = StepsDone
      /\ ~IsModule(baseline) =>
           /\ opt_base = NoOpt
           /\ baseline.id = None
           /\ \A id \in DOMAIN heap : heap[id].owner = c => heap[id].kind = "critic"
      /\ \A id \in DOMAIN heap :
           heap[id].owner = c /\ id # critic /\ ~(IsModule(baseline) /\ id = baseline.id)
             => heap[id].ver = 0

\* two iterations completed with a learned baseline: two steps on each set
C5_Witness ==
    /\ pc = "loop"
    /\ i = 2
    /\ IsModule(baseline)
    /\ heap[critic].ver = 2
    /\ heap[baseline.id].ver = 2

----------------------------------------------------------------------------
(* C6 *)

Ordered == {"lookup", "sample", "estimate", "negate", "backward", "step_crit",
            "step_base", "append"}

\* the ordered events of iteration k, as logged
IterEvents(k) ==
    LET s == SelectSeq(log, LAMBDA e : e.i = k /\ e.ev \in Ordered)
    IN  [j \in 1..Len(s) |-> s[j].ev]

\* the order of one iteration's events
IterOrder ==
    IF IsModule(baseline)
    THEN <<"lookup", "sample", "estimate", "negate", "backward", "step_crit",
           "step_base", "append">>
    ELSE <<"lookup", "sample", "estimate", "negate", "backward", "step_crit", "append">>

IsPrefix(s, t) == Len(s) <= Len(t) /\ \A j \in 1..Len(s) : s[j] = t[j]

\* C6: within each iteration the events occur in this order, each exactly once: the
\* scheduled correlation is looked up, a fresh batch is drawn, the estimator's
\* scalar is computed, it is negated to form the loss, the gradients are computed,
\* the optimizer step(s) are applied, and only then the detached estimate is
\* appended; the appended value is the scalar computed before that iteration's
\* optimizer step (from the parameters no step of that iteration has touched).
C6_IterationOrder ==
    InRun =>
      /\ \A k \in 0..(i - 1) : IterEvents(k) = IterOrder
      /\ InStep => IsPrefix(IterEvents(i), IterOrder)
      /\ \A k \in 1..Len(estimates) :
           /\ estimates[k].sign = 1
           /\ estimates[k].val.critic_ver = k - 1
           /\ estimates[k].val.batch.draw = <<c, k - 1>>
           /\ IsModule(baseline) => estimates[k].val.baseline_ver = k - 1
           /\ \A j \in EvAt("negate", k - 1) : Detach(log[j].d) = Neg(estimates[k])

\* the second iteration's estimate has been appended after its optimizer steps
C6_Witness ==
    /\ pc = "loop"
    /\ i = 2
    /\ IsModule(baseline)
    /\ IterEvents(1) = IterOrder
    /\ heap[critic].ver = 2
    /\ estimates[2].val.critic_ver = 1

----------------------------------------------------------------------------
(* C7 *)

\* C7: the correlation schedule is computed once, before the first iteration, from
\* the iteration count and the data dimension, and is not modified afterwards;
\* iteration i draws its batch with exactly the i-th scheduled correlation and with
\* the dimension, batch size and cubic flag of data_params, like every other
\* iteration of the run.
C7_Schedule ==
    /\ Count("schedule") <= 1
    /\ \A k \in EvIdx("lookup") : \E j \in EvIdx("schedule") : j < k
    /\ InRun /\ pc # "schedule" =>
         /\ Count("schedule") = 1
         /\ Len(rhos) = N
         /\ rhos = mi_to_rho(data_params.dim, mi_schedule(N))
    /\ \A k \in EvIdx("lookup") : log[k].d = rhos[log[k].i + 1]
    /\ \A k \in EvIdx("sample") :
         /\ log[k].d.rho = rhos[log[k].i + 1]
         /\ log[k].d.dim = data_params.dim
         /\ log[k].d.batch_size = data_params.batch_size
         /\ log[k].d.cubic = data_params.cubic
    /\ \A k \in 0..(i - 1) : Cardinality(EvAt("sample", k)) = 1

\* the second batch was drawn with the second scheduled correlation, which is not
\* the first
C7_Witness ==
    /\ pc = "estimate"
    /\ i = 1
    /\ xy.rho = rhos[2]
    /\ rhos[2] # rhos[1]

----------------------------------------------------------------------------
(* C9 *)

\* C9: in every iteration the accumulated gradients of the critic optimizer (and
\* of the baseline optimizer when the baseline is learned) are reset before that
\* iteration's gradient computation, so the gradients each optimizer step consumes
\* come from that iteration's loss alone.
C9_FreshGradients ==
    /\ \A k \in EvIdx("step_crit") : log[k].d = {<<c, log[k].i>>}
    /\ \A k \in EvIdx("step_base") : log[k].d \subseteq {<<c, log[k].i>>}
    /\ \A k \in EvIdx("step_base") :
         UsesBaseline(mi_params["estimator"]) => log[k].d = {<<c, log[k].i>>}
    /\ pc \in {"select", "sample", "estimate", "backward"} =>
         /\ heap[opt_crit.params].grad = {}
         /\ IsModule(baseline) => heap[opt_base.params].grad = {}
    /\ pc = "opt_step" =>
         /\ heap[opt_crit.params].grad = {<<c, i>>}
         /\ IsModule(baseline) => heap[opt_base.params].grad \subseteq {<<c, i>>}

\* the second iteration's steps consumed the second loss alone
C9_Witness ==
    /\ pc = "append"
    /\ i = 1
    /\ IsModule(baseline)
    /\ opt_crit.last = {<<c, 1>>}
    /\ opt_base.last = {<<c, 1>>}

----------------------------------------------------------------------------
(* C10 *)

\* the calls of the driver whose trace has been stored
Stored == IF caller = "driver" THEN (IF pc = "idle" THEN c ELSE c - 1) ELSE 0

\* C10: each call constructs its own critic, baseline, optimizers and empty trace,
\* so over the driver's sequence of configurations no parameter, optimizer or trace
\* state of one run is read or modified by a later run, and each run's result is
\* stored under its own (critic type, estimator key) without overwriting another's.
C10_RunsIndependent ==
    /\ InRun =>
         /\ heap[critic].owner = c
         /\ heap[critic].class = Get(mi_params, "critic", "separable")
         /\ IsModule(baseline) => heap[baseline.id].owner = c /\ baseline.id # critic
         /\ \A k \in 1..Len(estimates) :
              /\ estimates[k].val.critic = critic
              /\ estimates[k].val.batch.draw[1] = c
    /\ pc = "schedule" => estimates = <<>> /\ opt_crit.steps = 0 /\ opt_base.steps = 0
    /\ \A id \in DOMAIN heap :
         /\ heap[id].owner \in 1..c
         /\ heap[id].grad \subseteq {<<heap[id].owner, k>> : k \in 0..(N - 1)}
         /\ heap[id].owner < c => heap[id].ver = N
         /\ \A id2 \in DOMAIN heap :
              heap[id].owner = heap[id2].owner /\ heap[id].kind = heap[id2].kind
                => id = id2
    /\ \A j \in 1..Stored :
         LET e == DriverPlan[j]
         IN  /\ e.critic_type \in DOMAIN mi_numpys
             /\ KeyOf(e) \in DOMAIN mi_numpys[e.critic_type]
             /\ LET t == mi_numpys[e.critic_type][KeyOf(e)]
                IN  /\ t.shape = <<N>>
                    /\ \A k \in 1..Len(t.data) :
                         /\ t.data[k].val.batch.draw = <<j, k - 1>>
                         /\ t.data[k].val.estimator = e.estimator
                         /\ heap[t.data[k].val.critic].owner = j
                         /\ heap[t.data[k].val.critic].class = e.critic_type
                         /\ t.data[k].val.kwargs =
                              (IF e.clip = "" THEN <<>> ELSE [clip |-> e.clip])
    /\ caller = "driver" =>
         \A ct \in DOMAIN mi_numpys :
           Cardinality(DOMAIN mi_numpys[ct]) =
             Cardinality({j \in 1..Stored : DriverPlan[j].critic_type = ct})

\* the driver has stored all twelve traces, each of three estimates
C10_Witness ==
    /\ caller = "driver"
    /\ pc = "idle"
    /\ c = Len(DriverPlan)
    /\ N = MaxIter
    /\ Cardinality(DOMAIN mi_numpys["separable"]) = 6
    /\ Cardinality(DOMAIN mi_numpys["concat"]) = 6

----------------------------------------------------------------------------
(* C2 *)

\* the run is configured as conditional: by its estimator, or by its critic
IsConditional ==
    \/ Get(mi_params, "estimator", "") = "conditional"
    \/ Get(mi_params, "critic", "") = "conditional"

\* C2: when a run is configured as conditional, the critic scored in each iteration
\* is constructed fresh in that iteration from that iteration's scheduled
\* correlation (the critic built before the loop is never the one scored), and the
\* configuration is one the run accepts.
C2_ConditionalRebuilt ==
    IsConditional =>
      /\ error # "KeyError"
      /\ pc \in {"sample", "estimate", "backward", "opt_step", "append"} =>
           /\ critic_ # critic
           /\ heap[critic_].rho = rho

\* the same, for the runs that reach an iteration: the critic handed to the
\* estimator is not the one built before the loop
C2_ScoredCriticFresh ==
    IsConditional /\ pc \in {"sample", "estimate", "backward", "opt_step", "append"}
      => critic_ # critic

----------------------------------------------------------------------------
(* C3 *)

\* mi_params names an estimator, a critic or a baseline that does not exist
UnknownName ==
    \/ "estimator" \in DOMAIN mi_params /\ mi_params["estimator"] \notin ESTIMATORS
    \/ "critic" \in DOMAIN mi_params /\ mi_params["critic"] \notin DOMAIN CRITICS
    \/ "baseline" \in DOMAIN mi_params /\ mi_params["baseline"] \notin DOMAIN BASELINES

\* C3: if the configuration names an unknown estimator, critic or baseline, the run
\* fails before training starts: no batch is drawn, no gradient is computed and no
\* optimizer step is applied in any iteration, and nothing is returned.
C3_FailsFast ==
    UnknownName =>
      /\ Count("sample") = 0
      /\ Count("backward") = 0
      /\ Count("step_crit") = 0
      /\ Count("step_base") = 0
      /\ N > 0 => pc # "returned"

----------------------------------------------------------------------------
(* C8 *)

\* mi_params leaves out 'critic' and is otherwise valid
OmitsCritic ==
    /\ "critic" \notin DOMAIN mi_params
    /\ Get(mi_params, "baseline", "constant") \in DOMAIN BASELINES
    /\ "estimator" \in DOMAIN mi_params
    /\ mi_params["estimator"] \in ESTIMATORS

\* C8: when mi_params omits 'critic', the default separable critic built at
\* construction is the critic of every iteration and the run meets no
\* configuration error.
C8_DefaultCritic ==
    caller = "direct" /\ OmitsCritic =>
      /\ error # "KeyError"
      /\ InRun => heap[critic].class = "separable"
      /\ pc \in {"sample", "estimate", "backward", "opt_step", "append"} => critic_ = critic

====
